---- MODULE Spec2Model ----
(* A model of gp_sort_media.py: the sorter (_sort_dir), the folder conformer *)
(* (_conform_paths and the three _conform_*_path handlers) and the          *)
(* single-file conform (conform_files, _process_file, _rename_file), run    *)
(* over a small POSIX (case-sensitive) file system.                         *)
(*                                                                          *)
(* A file name is a sequence of one-character strings, so that splitext,    *)
(* str.lower, slicing and str.format are computed character by character.   *)
(* A path is a sequence of names below the root the program is given; the   *)
(* file system is a function from the paths that exist to their nodes.      *)
EXTENDS Integers, Sequences, FiniteSets

VARIABLES fs, fs0, entry, pc, outer, inner, files, err

vars == <<fs, fs0, entry, pc, outer, inner, files, err>>

(* ------------------------------------------------------------------ *)
(* Bounds of the model                                                 *)
(* ------------------------------------------------------------------ *)
MaxEntries == 3
MaxFolders == 2
MaxInner == 1
MaxArgs == 2

(* ------------------------------------------------------------------ *)
(* Names                                                               *)
(* ------------------------------------------------------------------ *)
HIRES == <<"H", "I", "R", "E", "S">>
PROXY == <<"P", "R", "O", "X", "Y">>
THUMB == <<"T", "H", "U", "M", "B", "N", "A", "I", "L", "S">>

(* the proxy rule without its offset *)
LRV_PROPERTIES_NoOffset == [fmt |-> <<"G", "H", "{", "}", ".", "M", "P", "4">>, index |-> 0]

LRV_PROPERTIES == [fmt |-> <<"G", "H", "{", "}", ".", "M", "P", "4">>, index |-> 2]
THM_PROPERTIES == [fmt |-> <<"{", "}", ".", "J", "P", "G">>, index |-> 0]

Upper == <<"A", "B", "C", "D", "E", "F", "G", "H", "I", "J", "K", "L", "M",
           "N", "O", "P", "Q", "R", "S", "T", "U", "V", "W", "X", "Y", "Z">>
Lowercase == <<"a", "b", "c", "d", "e", "f", "g", "h", "i", "j", "k", "l", "m",
               "n", "o", "p", "q", "r", "s", "t", "u", "v", "w", "x", "y", "z">>

(* str.lower on one character, then on a name *)
LowerChar(c) ==
    IF \E i \in 1..Len(Upper) : Upper[i] = c
    THEN Lowercase[CHOOSE i \in 1..Len(Upper) : Upper[i] = c]
    ELSE c

Lower(name) == [i \in 1..Len(name) |-> LowerChar(name[i])]

(* s[index:] *)
Slice(s, index) == SubSeq(s, index + 1, Len(s))

Max(S) == CHOOSE x \in S : \A y \in S : y <= x

(* os.path.splitext: the extension starts at the last dot, unless only dots *)
(* precede that dot; 0 when the name has no extension.                      *)
DotIndex(name) ==
    LET dots == {i \in 1..Len(name) : name[i] = "."}
    IN  IF dots = {} THEN 0
        ELSE IF \E i \in 1..(Max(dots) - 1) : name[i] # "." THEN Max(dots)
        ELSE 0

SplitextRoot(name) ==
    IF DotIndex(name) = 0 THEN name ELSE SubSeq(name, 1, DotIndex(name) - 1)

SplitextExt(name) ==
    IF DotIndex(name) = 0 THEN <<>> ELSE SubSeq(name, DotIndex(name), Len(name))

(* os.path.splitext(each)[1][1:] : the extension without its dot *)
ExtOf(name) == Slice(SplitextExt(name), 1)

(* a format that loses what follows the placeholder *)
FormatNoSuffix(fmt, arg) ==
    LET i == CHOOSE k \in 1..(Len(fmt) - 1) : fmt[k] = "{" /\ fmt[k + 1] = "}"
    IN  SubSeq(fmt, 1, i - 1) \o arg

(* fmt.format(arg) for a template with one "{}" placeholder *)
Format(fmt, arg) ==
    LET i == CHOOSE k \in 1..(Len(fmt) - 1) : fmt[k] = "{" /\ fmt[k + 1] = "}"
    IN  SubSeq(fmt, 1, i - 1) \o arg \o SubSeq(fmt, i + 2, Len(fmt))

(* ------------------------------------------------------------------ *)
(* The file system                                                     *)
(* ------------------------------------------------------------------ *)
Root == <<>>

Dirname(p) == SubSeq(p, 1, Len(p) - 1)
Basename(p) == p[Len(p)]

(* os.path.join(path, name): joining the empty name gives the path itself *)
Join(p, name) == IF name = <<>> THEN p ELSE Append(p, name)

Exists(f, p) == p = Root \/ p \in DOMAIN f
IsDir(f, p) == p = Root \/ (p \in DOMAIN f /\ f[p].kind = "dir")

IsPrefix(p, q) == Len(p) <= Len(q) /\ SubSeq(q, 1, Len(p)) = p
Under(f, p) == {q \in DOMAIN f : IsPrefix(p, q)}

ListDir(f, p) == {q[Len(q)] : q \in {r \in DOMAIN f : Len(r) = Len(p) + 1 /\ IsPrefix(p, r)}}

(* os.mkdir *)
AddDir(f, p) ==
    [q \in DOMAIN f \cup {p} |-> IF q = p THEN [kind |-> "dir", orig |-> <<>>] ELSE f[q]]

(* a move that takes the node at src and leaves what is below it behind *)
MoveTreeShallow(f, src, dst) ==
    LET kept == (DOMAIN f \ {src}) \ {dst}
    IN  [q \in kept \cup {dst} |-> IF q = dst THEN f[src] ELSE f[q]]

(* the tree at src reappears at dst; whatever was at dst is replaced *)
MoveTree(f, src, dst) ==
    LET moved == Under(f, src)
        kept == (DOMAIN f \ moved) \ Under(f, dst)
        Target(q) == dst \o SubSeq(q, Len(src) + 1, Len(q))
        newdom == kept \cup {Target(q) : q \in moved}
    IN  [q \in newdom |->
            IF q \in kept THEN f[q]
            ELSE f[CHOOSE r \in moved : Target(r) = q]]


NoError == [type |-> "none", arg |-> <<>>]
Raise(type, arg) == [type |-> type, arg |-> arg]

(* os.rename on a POSIX file system *)
OsRename(f, src, dst) ==
    IF ~Exists(f, dst) THEN [err |-> NoError, fs |-> MoveTree(f, src, dst)]
    ELSE IF ~IsDir(f, src) /\ ~IsDir(f, dst)
    THEN [err |-> NoError, fs |-> MoveTree(f, src, dst)]
    ELSE IF IsDir(f, src) /\ ~IsDir(f, dst)
    THEN [err |-> Raise("NotADirectoryError", dst), fs |-> f]
    ELSE IF ~IsDir(f, src) /\ IsDir(f, dst)
    THEN [err |-> Raise("IsADirectoryError", dst), fs |-> f]
    ELSE IF ListDir(f, dst) = {}
    THEN [err |-> NoError, fs |-> MoveTree(f, src, dst)]
    ELSE [err |-> Raise("OSError", dst), fs |-> f]

(* shutil.move: into dst when dst is a directory, onto dst otherwise; when   *)
(* os.rename fails for a directory it falls back to copytree, whose makedirs *)
(* raises on the existing destination.                                      *)
ShutilMove(f, src, dst) ==
    IF IsDir(f, dst)
    THEN IF src = dst THEN [err |-> NoError, fs |-> f]
         ELSE LET real_dst == Join(dst, Basename(src))
              IN  IF Exists(f, real_dst)
                  THEN [err |-> Raise("shutil.Error", real_dst), fs |-> f]
                  ELSE OsRename(f, src, real_dst)
    ELSE LET r == OsRename(f, src, dst)
         IN  IF r.err = NoError THEN r
             ELSE [err |-> Raise("FileExistsError", dst), fs |-> f]

(* _mkdir *)
Mkdir(f, p) == IF ~Exists(f, p) THEN AddDir(f, p) ELSE f

(* a destination resolved against the root instead of the directory of src *)
RenameDstAtRoot(src, props) ==
    Join(Root, Format(props.fmt, Slice(SplitextRoot(Basename(src)), props.index)))

(* the destination _rename_file computes for src *)
RenameDst(src, props) ==
    Join(Dirname(src), Format(props.fmt, Slice(SplitextRoot(Basename(src)), props.index)))

(* a rename that acts before it checks the destination *)
RenameFileActFirst(f, src, props) ==
    LET dst == RenameDst(src, props)
    IN  IF Exists(f, dst)
        THEN [err |-> Raise("FileExistsError", dst), fs |-> MoveTree(f, src, dst)]
        ELSE OsRename(f, src, dst)

(* _rename_file *)
RenameFile(f, src, props) ==
    LET dst == RenameDst(src, props)
    IN  IF Exists(f, dst)
        THEN [err |-> Raise("FileExistsError", dst), fs |-> f]
        ELSE OsRename(f, src, dst)

(* _rename_folder *)
RenameFolder(f, src, name) ==
    LET dst == Join(Dirname(src), name)
    IN  IF Exists(f, dst)
        THEN [err |-> Raise("IOError", dst), fs |-> f]
        ELSE ShutilMove(f, src, dst)

(* one iteration of the loop of _sort_dir *)
SortOne(f, each) ==
    LET ext == ExtOf(each)
        src == Join(Root, each)
        dst == Join(Root, ext)
    IN  ShutilMove(Mkdir(f, dst), src, dst)

(* the names for which globals() holds a _conform_<name>_path handler, with *)
(* the folder name and the file rule each handler applies                   *)
mp4 == <<"m", "p", "4">>
lrv == <<"l", "r", "v">>
thm == <<"t", "h", "m">>

(* a dispatch that has lost the mp4 handler *)
PathHandlersNoMp4 == {lrv, thm}

PathHandlers == {mp4, lrv, thm}
(* the canonical names of the lrv and thm folders exchanged *)
FolderNameSwapped(h) == IF h = mp4 THEN HIRES ELSE IF h = lrv THEN THUMB ELSE PROXY

FolderName(h) == IF h = mp4 THEN HIRES ELSE IF h = lrv THEN PROXY ELSE THUMB
FolderRule(h) == IF h = lrv THEN LRV_PROPERTIES ELSE THM_PROPERTIES

(* a dispatch that also finds a handler for mp4 files *)
FileHandlersWithMp4 == {lrv, thm, mp4}

(* the names for which globals() holds a conform_<name>_file function *)
FileHandlers == {lrv, thm}


(* ------------------------------------------------------------------ *)
(* The directories the program is started on                           *)
(* ------------------------------------------------------------------ *)
GH2_MP4 == <<"G", "H", "2", ".", "M", "P", "4">>
GL2_LRV == <<"G", "L", "2", ".", "L", "R", "V">>
GL3_LRV == <<"G", "L", "3", ".", "L", "R", "V">>
XX2_LRV == <<"X", "X", "2", ".", "L", "R", "V">>
GH2_THM == <<"G", "H", "2", ".", "T", "H", "M">>
a_mp4 == <<"a", ".", "m", "p", "4">>
a_HIRES == <<"a", ".", "H", "I", "R", "E", "S">>
MP4 == <<"M", "P", "4">>
LRV == <<"L", "R", "V">>
Mp4 == <<"M", "p", "4">>
s_d == <<"s", ".", "d">>

(* names a file directly under the root may have: camera files, two    *)
(* spellings of one extension, an extension that is a canonical folder *)
(* name, and a file without extension named like a bucket              *)
RootFileNames == {GH2_MP4, GL2_LRV, GL3_LRV, XX2_LRV, GH2_THM, a_mp4, a_HIRES, MP4}

(* names a folder directly under the root may have *)
FolderNames == {mp4, Mp4, LRV, HIRES, s_d}

(* names a file inside such a folder may have *)
InnerNames == {GL2_LRV, GH2_MP4}

Node(kind, p) == [kind |-> kind, orig |-> p]

(* the tree with the files F and the folders D under the root, folder d *)
(* holding the files c[d]; every node remembers its original path       *)
Tree(F, D, c) ==
    LET paths == {<<n>> : n \in F \cup D} \cup
                 UNION {{<<d, i>> : i \in c[d]} : d \in D}
    IN  [p \in paths |->
            IF Len(p) = 1 /\ p[1] \in D THEN Node("dir", p) ELSE Node("file", p)]

Init ==
    /\ \E F \in SUBSET RootFileNames, D \in SUBSET FolderNames :
          /\ Cardinality(D) <= MaxFolders
          /\ Cardinality(F) + Cardinality(D) <= MaxEntries
          /\ \E c \in [D -> {S \in SUBSET InnerNames : Cardinality(S) <= MaxInner}] :
                fs = Tree(F, D, c)
    /\ fs0 = fs
    /\ entry = "none"
    /\ pc = "idle"
    /\ outer = {}
    /\ inner = {}
    /\ files = <<>>
    /\ err = NoError

(* ------------------------------------------------------------------ *)
(* sort_media: _sort_dir, then _conform_paths                          *)
(* ------------------------------------------------------------------ *)
(* an exception leaves the program where it was raised; nothing runs after it *)
Fail(f, e) ==
    /\ fs' = f
    /\ pc' = pc
    /\ err' = e

(* sort_media is called on the root: _sort_dir lists it *)
SortMedia ==
    /\ pc = "idle"
    /\ entry' = "sort_media"
    /\ outer' = ListDir(fs, Root)
    /\ pc' = IF ListDir(fs, Root) = {} THEN "done" ELSE "sort"
    /\ UNCHANGED <<fs, fs0, inner, files, err>>

(* one iteration of _sort_dir; after the last one _conform_paths lists *)
(* the root                                                            *)
SortDirStep ==
    /\ pc = "sort"
    /\ err = NoError
    /\ \E each \in outer :
          LET r == SortOne(fs, each)
              rem == outer \ {each}
          IN  IF r.err # NoError
              THEN Fail(r.fs, r.err) /\ UNCHANGED outer
              ELSE /\ fs' = r.fs
                   /\ outer' = IF rem = {} THEN ListDir(r.fs, Root) ELSE rem
                   /\ pc' = IF rem = {} THEN "paths" ELSE "sort"
                   /\ UNCHANGED err
    /\ UNCHANGED <<fs0, entry, inner, files>>

(* _conform_paths called on the root *)
ConformPaths ==
    /\ pc = "idle"
    /\ entry' = "_conform_paths"
    /\ outer' = ListDir(fs, Root)
    /\ pc' = IF ListDir(fs, Root) = {} THEN "done" ELSE "paths"
    /\ UNCHANGED <<fs, fs0, inner, files, err>>

(* where _conform_paths is after the child each has been handled *)
NextPath(rem) == IF rem = {} THEN "done" ELSE "paths"

(* a child for which globals() has no handler: KeyError, continue *)
ConformPathsSkip ==
    /\ pc = "paths"
    /\ err = NoError
    /\ \E each \in outer :
          /\ Lower(each) \notin PathHandlers
          /\ outer' = outer \ {each}
          /\ pc' = NextPath(outer \ {each})
    /\ UNCHANGED <<fs, fs0, entry, inner, files, err>>

(* _conform_mp4_path *)
ConformMp4Path ==
    /\ pc = "paths"
    /\ err = NoError
    /\ \E each \in outer :
          /\ Lower(each) = mp4
          /\ LET r == RenameFolder(fs, Join(Root, each), HIRES)
             IN  IF r.err # NoError
                 THEN Fail(r.fs, r.err) /\ UNCHANGED outer
                 ELSE /\ fs' = r.fs
                      /\ outer' = outer \ {each}
                      /\ pc' = NextPath(outer \ {each})
                      /\ UNCHANGED err
    /\ UNCHANGED <<fs0, entry, inner, files>>

(* the head of _conform_lrv_path and _conform_thm_path: rename the folder, *)
(* then list it                                                           *)
ConformFolder(h, loop) ==
    /\ \E each \in outer :
          /\ Lower(each) = h
          /\ LET r == RenameFolder(fs, Join(Root, each), FolderName(h))
                 path == Join(Root, FolderName(h))
             IN  IF r.err # NoError
                 THEN Fail(r.fs, r.err) /\ UNCHANGED <<outer, inner>>
                 ELSE IF ~IsDir(r.fs, path)
                 THEN Fail(r.fs, Raise("NotADirectoryError", path)) /\ UNCHANGED <<outer, inner>>
                 ELSE /\ fs' = r.fs
                      /\ outer' = outer \ {each}
                      /\ inner' = ListDir(r.fs, path)
                      /\ pc' = IF ListDir(r.fs, path) = {} THEN NextPath(outer \ {each}) ELSE loop
                      /\ UNCHANGED err
    /\ UNCHANGED <<fs0, entry, files>>

ConformLrvPath ==
    /\ pc = "paths"
    /\ err = NoError
    /\ ConformFolder(lrv, "lrv")

ConformThmPath ==
    /\ pc = "paths"
    /\ err = NoError
    /\ ConformFolder(thm, "thm")

(* one iteration of the loop of _conform_lrv_path or _conform_thm_path *)
FolderStep(loop, folder, props) ==
    /\ \E each \in inner :
          LET r == RenameFile(fs, Join(Join(Root, folder), each), props)
          IN  IF r.err # NoError
              THEN Fail(r.fs, r.err) /\ UNCHANGED inner
              ELSE /\ fs' = r.fs
                   /\ inner' = inner \ {each}
                   /\ pc' = IF inner \ {each} = {} THEN NextPath(outer) ELSE loop
                   /\ UNCHANGED err
    /\ UNCHANGED <<fs0, entry, outer, files>>

LrvPathStep ==
    /\ pc = "lrv"
    /\ err = NoError
    /\ FolderStep("lrv", PROXY, LRV_PROPERTIES)

ThmPathStep ==
    /\ pc = "thm"
    /\ err = NoError
    /\ FolderStep("thm", THUMB, THM_PROPERTIES)

(* ------------------------------------------------------------------ *)
(* conform_files and the two public single-file functions              *)
(* ------------------------------------------------------------------ *)
RECURSIVE Seqs(_, _)
(* the sequences of at most n distinct elements of S *)
Seqs(S, n) ==
    IF n = 0 THEN {<<>>}
    ELSE {<<>>} \cup UNION {{<<x>> \o t : t \in Seqs(S \ {x}, n - 1)} : x \in S}

(* conform_files is called with a list of entries of the root *)
ConformFiles ==
    /\ pc = "idle"
    /\ \E args \in Seqs({p \in DOMAIN fs : Len(p) = 1}, MaxArgs) :
          /\ files' = args
          /\ pc' = IF args = <<>> THEN "done" ELSE "files"
    /\ entry' = "conform_files"
    /\ UNCHANGED <<fs, fs0, outer, inner, err>>

(* _process_file on the next element of the list *)
ProcessFile ==
    /\ pc = "files"
    /\ err = NoError
    /\ LET path == Head(files)
           ext == ExtOf(Basename(path))
           h == Lower(ext)
       IN  IF h \notin FileHandlers
           THEN Fail(fs, Raise("IOError", <<ext>>)) /\ UNCHANGED files
           ELSE LET r == RenameFile(fs, path, FolderRule(h))
                IN  IF r.err # NoError
                    THEN Fail(r.fs, r.err) /\ UNCHANGED files
                    ELSE /\ fs' = r.fs
                         /\ files' = Tail(files)
                         /\ pc' = IF Tail(files) = <<>> THEN "done" ELSE "files"
                         /\ UNCHANGED err
    /\ UNCHANGED <<fs0, entry, outer, inner>>

(* conform_lrv_file / conform_thm_file called on one path *)
ConformOneFile(name, props) ==
    /\ \E path \in DOMAIN fs :
          LET r == RenameFile(fs, path, props)
          IN  /\ files' = <<path>>
              /\ IF r.err # NoError
                 THEN fs' = r.fs /\ pc' = "files" /\ err' = r.err
                 ELSE fs' = r.fs /\ pc' = "done" /\ UNCHANGED err
    /\ entry' = name
    /\ UNCHANGED <<fs0, outer, inner>>

ConformLrvFile ==
    /\ pc = "idle"
    /\ ConformOneFile("conform_lrv_file", LRV_PROPERTIES)

ConformThmFile ==
    /\ pc = "idle"
    /\ ConformOneFile("conform_thm_file", THM_PROPERTIES)

Next ==
    \/ SortMedia
    \/ SortDirStep
    \/ ConformPaths
    \/ ConformPathsSkip
    \/ ConformMp4Path
    \/ ConformLrvPath
    \/ ConformThmPath
    \/ LrvPathStep
    \/ ThmPathStep
    \/ ConformFiles
    \/ ProcessFile
    \/ ConformLrvFile
    \/ ConformThmFile

Spec == Init /\ [][Next]_vars


(* ------------------------------------------------------------------ *)
(* Vocabulary of the properties                                        *)
(* ------------------------------------------------------------------ *)
RootNames(f) == ListDir(f, Root)

(* the root holds files only *)
Flat(f) == \A p \in DOMAIN f : Len(p) = 1 /\ f[p].kind = "file"

(* the name without its extension, and the correlation substring *)
Stem(name) == SplitextRoot(name)
Correlation(name) == SubSeq(Stem(name), 3, Len(Stem(name)))

(* the names the proxy rule and the thumbnail rule give a file *)
ProxyName(name) == <<"G", "H">> \o Correlation(name) \o <<".", "M", "P", "4">>
ThumbName(name) == Stem(name) \o <<".", "J", "P", "G">>

(* the sorter has finished and the folder conformer has taken over *)
Sorted == entry = "sort_media" /\ pc \in {"paths", "lrv", "thm", "done"}

(* the run ended without an exception *)
Completed == pc = "done" /\ err = NoError

(* ------------------------------------------------------------------ *)
(* C1: in no run of sort_media or conform_files is an existing path    *)
(* overwritten: every file and folder that existed before the run is   *)
(* still somewhere in the tree in every reachable state.               *)
(* ------------------------------------------------------------------ *)
C1_NothingOverwritten ==
    entry \in {"sort_media", "conform_files"} =>
        \A p \in DOMAIN fs0 : \E q \in DOMAIN fs : fs[q] = fs0[p]

(* ------------------------------------------------------------------ *)
(* C10: the sort of a directory that contains a file without extension *)
(* runs to completion: the sorter raises nothing on a flat directory,  *)
(* and once it is done every file with an extension is in the bucket   *)
(* of its extension.                                                   *)
(* ------------------------------------------------------------------ *)
C10_NoExtensionSorted ==
    (/\ entry = "sort_media"
     /\ Flat(fs0)
     /\ \E n \in RootNames(fs0) : ExtOf(n) = <<>>)
    => /\ ~(pc = "sort" /\ err # NoError)
       /\ Sorted =>
             \A n \in RootNames(fs0) :
                 ExtOf(n) # <<>> => \E q \in DOMAIN fs : fs[q] = fs0[<<n>>] /\ Len(q) = 2

(* ------------------------------------------------------------------ *)
(* C4: _process_file on a path whose extension is neither lrv nor thm  *)
(* (case-insensitively) raises IOError and leaves the file system as   *)
(* it was.                                                             *)
(* ------------------------------------------------------------------ *)
C4_UnsupportedStep ==
    (/\ pc = "files"
     /\ err = NoError
     /\ Lower(ExtOf(Basename(Head(files)))) \notin {lrv, thm})
    => /\ fs' = fs
       /\ err'.type = "IOError"
       /\ files' = files

C4_Unsupported == [][C4_UnsupportedStep]_vars

C4_Witness ==
    /\ entry = "conform_files"
    /\ err.type = "IOError"
    /\ Head(files) \in DOMAIN fs
    /\ fs[Head(files)].kind = "file"
    /\ ExtOf(Basename(Head(files))) = MP4


(* ------------------------------------------------------------------ *)
(* C3: conforming a file with the proxy rule renames it in its own     *)
(* directory to "GH" + B[2:] + ".MP4", with the thumbnail rule to      *)
(* B + ".JPG" (B its base name); when the destination does not exist   *)
(* the old name is gone, the new name holds the same node and nothing  *)
(* else changes; when it exists the call raises and changes nothing.   *)
(* ------------------------------------------------------------------ *)
Renamed(src, name) ==
    LET dir == Dirname(src)
        dst == Append(dir, name)
    IN  /\ dst \notin DOMAIN fs
        /\ err' = NoError
        /\ src \notin DOMAIN fs'
        /\ dst \in DOMAIN fs'
        /\ fs'[dst] = fs[src]
        /\ ListDir(fs', dir) = (ListDir(fs, dir) \ {Basename(src)}) \cup {name}
        /\ \A p \in DOMAIN fs : ~IsPrefix(src, p) => p \in DOMAIN fs' /\ fs'[p] = fs[p]

Refused(src, name) ==
    LET dst == Append(Dirname(src), name)
    IN  /\ dst \in DOMAIN fs
        /\ err' = Raise("FileExistsError", dst)
        /\ fs' = fs

Conformed(src, name) == Renamed(src, name) \/ Refused(src, name)

RuleName(rule, name) == IF rule = lrv THEN ProxyName(name) ELSE ThumbName(name)

C3_FolderStep ==
    (pc \in {"lrv", "thm"} /\ err = NoError /\ vars' # vars) =>
        \E each \in inner :
            LET src == <<IF pc = "lrv" THEN PROXY ELSE THUMB, each>>
                name == IF pc = "lrv" THEN ProxyName(each) ELSE ThumbName(each)
            IN  \/ inner' = inner \ {each} /\ Renamed(src, name)
                \/ inner' = inner /\ Refused(src, name)

C3_FilesStep ==
    (/\ pc = "files"
     /\ err = NoError
     /\ vars' # vars
     /\ Lower(ExtOf(Basename(Head(files)))) \in {lrv, thm})
    => Conformed(Head(files),
                 RuleName(Lower(ExtOf(Basename(Head(files)))), Basename(Head(files))))

C3_DirectStep ==
    /\ entry' = "conform_lrv_file" /\ pc = "idle" =>
          Conformed(files'[1], ProxyName(Basename(files'[1])))
    /\ entry' = "conform_thm_file" /\ pc = "idle" =>
          Conformed(files'[1], ThumbName(Basename(files'[1])))

C3_Rename == [][C3_FolderStep /\ C3_FilesStep /\ C3_DirectStep]_vars

(* a proxy file and a thumbnail, each renamed inside its folder *)
C3_Witness ==
    /\ Completed
    /\ \E p \in DOMAIN fs :
          /\ Len(p) = 2 /\ fs[p].kind = "file"
          /\ fs[p].orig = <<GL2_LRV>>
          /\ Basename(p) = GH2_MP4
    /\ \E p \in DOMAIN fs :
          /\ Len(p) = 2 /\ fs[p].kind = "file"
          /\ fs[p].orig = <<GH2_THM>>
          /\ Basename(p) = <<"G", "H", "2", ".", "J", "P", "G">>

(* ------------------------------------------------------------------ *)
(* C5 as stated: when conform_files fails on a proxy file because its  *)
(* target name exists, nothing has been renamed, whatever the position *)
(* of the colliding file in the list.                                  *)
(* ------------------------------------------------------------------ *)
ProxyCollision ==
    /\ entry = "conform_files"
    /\ err.type = "FileExistsError"
    /\ Lower(ExtOf(Basename(Head(files)))) = lrv

C5_NothingRenamed == ProxyCollision => fs = fs0

(* C5 as amended: conform_files fails with FileExistsError naming the  *)
(* existing target; the colliding file and the files after it in the   *)
(* list are untouched, and every other node is untouched or, having    *)
(* come earlier in the list, stays renamed by its rule in place.       *)
InPlace(p) == p \in DOMAIN fs /\ fs[p] = fs0[p]

StaysRenamed(p) ==
    /\ p \notin DOMAIN fs
    /\ \E name \in {ProxyName(Basename(p)), ThumbName(Basename(p))} :
          /\ Append(Dirname(p), name) \in DOMAIN fs
          /\ fs[Append(Dirname(p), name)] = fs0[p]

C5_NoRollback ==
    ProxyCollision =>
        /\ err.arg = Append(Dirname(Head(files)), ProxyName(Basename(Head(files))))
        /\ err.arg \in DOMAIN fs
        /\ \A i \in 1..Len(files) : InPlace(files[i])
        /\ \A p \in DOMAIN fs0 : InPlace(p) \/ StaysRenamed(p)

(* the collision came second: the first file of the list stays renamed *)
C5_Witness ==
    /\ ProxyCollision
    /\ \E p \in DOMAIN fs0 : StaysRenamed(p)

(* ------------------------------------------------------------------ *)
(* C6 as stated: in the directory pipeline a proxy file whose          *)
(* correlation substring matches no file of HIRES makes the pass fail, *)
(* so no completed run has an unmatched file in PROXY.                 *)
(* ------------------------------------------------------------------ *)
InFolder(folder, p) == Len(p) = 2 /\ p[1] = folder

Unmatched(p) ==
    /\ InFolder(PROXY, p)
    /\ \A q \in DOMAIN fs :
          InFolder(HIRES, q) => Correlation(q[2]) # Correlation(Basename(fs[p].orig))

C6_UnmatchedFails ==
    (Sorted /\ Completed /\ <<HIRES>> \in DOMAIN fs) =>
        \A p \in DOMAIN fs : ~Unmatched(p)

(* C6 as amended: the pass never looks at HIRES; every proxy file it   *)
(* reaches is renamed by the proxy rule, matched or not. It fails only *)
(* on an existing destination, with FileExistsError naming it, and     *)
(* then the files not yet reached keep their names while those renamed *)
(* earlier stay renamed.                                               *)
C6_NoLookup ==
    entry = "sort_media" =>
        /\ pc = "lrv" =>
              \/ err = NoError
              \/ err.type = "FileExistsError" /\ InFolder(PROXY, err.arg) /\ err.arg \in DOMAIN fs
        /\ pc = "lrv" =>
              \A each \in inner :
                  /\ <<PROXY, each>> \in DOMAIN fs
                  /\ Basename(fs[<<PROXY, each>>].orig) = each
        /\ \A p \in DOMAIN fs :
              (InFolder(PROXY, p) /\ ~(pc = "lrv" /\ p[2] \in inner)) =>
                  p[2] = ProxyName(Basename(fs[p].orig))

(* an unmatched proxy file was renamed, then a later one collided *)
C6_Witness ==
    /\ entry = "sort_media"
    /\ pc = "lrv"
    /\ err.type = "FileExistsError"
    /\ inner # {}
    /\ \E p \in DOMAIN fs : Unmatched(p) /\ p[2] \notin inner

(* ------------------------------------------------------------------ *)
(* C7 as stated: after the pipeline a proxy file has the stem of the   *)
(* hires file sharing its correlation substring and keeps its own      *)
(* extension.                                                          *)
(* ------------------------------------------------------------------ *)
IsProxy(n) == <<n>> \in DOMAIN fs0 /\ fs0[<<n>>].kind = "file" /\ Lower(ExtOf(n)) = lrv
IsHires(n) == <<n>> \in DOMAIN fs0 /\ fs0[<<n>>].kind = "file" /\ Lower(ExtOf(n)) = mp4

C7_KeepsExtension ==
    (Sorted /\ Completed) =>
        \A n, h \in RootNames(fs0) :
            (IsProxy(n) /\ IsHires(h) /\ Correlation(n) = Correlation(h)) =>
                \E q \in DOMAIN fs :
                    /\ fs[q] = fs0[<<n>>]
                    /\ Stem(Basename(q)) = Stem(h)
                    /\ SplitextExt(Basename(q)) = SplitextExt(n)

(* C7 as amended: the proxy file ends as PROXY/"GH" + correlation      *)
(* substring + ".MP4": its extension becomes .MP4, and its stem is the *)
(* hires file's stem whenever that stem begins with "GH".              *)
C7_TakesMp4 ==
    (Sorted /\ Completed) =>
        \A n \in RootNames(fs0) :
            IsProxy(n) =>
                \E q \in DOMAIN fs :
                    /\ InFolder(PROXY, q)
                    /\ fs[q] = fs0[<<n>>]
                    /\ Stem(q[2]) = <<"G", "H">> \o Correlation(n)
                    /\ SplitextExt(q[2]) = <<".", "M", "P", "4">>
                    /\ \A h \in RootNames(fs0) :
                          (/\ IsHires(h)
                           /\ Correlation(n) = Correlation(h)
                           /\ SubSeq(Stem(h), 1, 2) = <<"G", "H">>)
                          => Stem(q[2]) = Stem(h)

C7_Witness ==
    /\ Sorted /\ Completed
    /\ <<HIRES, GH2_MP4>> \in DOMAIN fs
    /\ <<PROXY, GH2_MP4>> \in DOMAIN fs
    /\ fs[<<HIRES, GH2_MP4>>].orig = <<GH2_MP4>>
    /\ fs[<<PROXY, GH2_MP4>>].orig = <<GL2_LRV>>


(* ------------------------------------------------------------------ *)
(* C8 as stated: _conform_paths on a root with a child folder named    *)
(* mp4 (case-insensitively) and no sibling named HIRES renames that    *)
(* folder to HIRES with the same files inside; every child whose       *)
(* lowercased name is not mp4, lrv or thm is left as it was.           *)
(* ------------------------------------------------------------------ *)
Mp4Child(n) == <<n>> \in DOMAIN fs0 /\ fs0[<<n>>].kind = "dir" /\ Lower(n) = mp4

Unsupported(n) == Lower(n) \notin {mp4, lrv, thm}

(* the folder n of the start is now the folder m, with the same contents *)
MovedTo(n, m) ==
    /\ <<m>> \in DOMAIN fs
    /\ fs[<<m>>] = fs0[<<n>>]
    /\ ListDir(fs, <<m>>) = ListDir(fs0, <<n>>)
    /\ \A i \in ListDir(fs0, <<n>>) : fs[<<m, i>>] = fs0[<<n, i>>]

Untouched(n) ==
    /\ Under(fs, <<n>>) = Under(fs0, <<n>>)
    /\ \A p \in Under(fs0, <<n>>) : fs[p] = fs0[p]

Finished == pc = "done" \/ err # NoError

C8_Mp4Renamed ==
    (entry = "_conform_paths" /\ Finished) =>
        /\ \A n \in RootNames(fs0) :
              (Mp4Child(n) /\ HIRES \notin RootNames(fs0)) => MovedTo(n, HIRES)
        /\ \A n \in RootNames(fs0) : Unsupported(n) => Untouched(n)

(* C8 as amended: every run of _conform_paths that completes has      *)
(* renamed the mp4 folder to HIRES with the same files inside, and the *)
(* run completes when that folder is the only supported child and no   *)
(* sibling is named HIRES; an error of an lrv or thm child, or of a    *)
(* second child spelled mp4, aborts the pass and may leave the folder  *)
(* unrenamed. Unsupported children are left as they were in every run, *)
(* and every error names a path at or under a canonical folder.        *)
OnlyMp4Supported ==
    /\ HIRES \notin RootNames(fs0)
    /\ Cardinality({n \in RootNames(fs0) : ~Unsupported(n)}) = 1
    /\ \E n \in RootNames(fs0) : Mp4Child(n)

C8_Mp4RenamedIfCompleted ==
    entry = "_conform_paths" =>
        /\ Completed => \A n \in RootNames(fs0) : Mp4Child(n) => MovedTo(n, HIRES)
        /\ OnlyMp4Supported => err = NoError
        /\ \A n \in RootNames(fs0) : Unsupported(n) => Untouched(n)
        /\ err # NoError => err.arg[1] \in {HIRES, PROXY, THUMB}

(* a spelling of mp4 with files inside was renamed next to a child that *)
(* was skipped                                                          *)
C8_Witness ==
    /\ entry = "_conform_paths"
    /\ Completed
    /\ Mp4Child(Mp4)
    /\ ListDir(fs, <<HIRES>>) # {}
    /\ \E n \in RootNames(fs0) : Unsupported(n) /\ ListDir(fs0, <<n>>) # {}

(* ------------------------------------------------------------------ *)
(* C9 as stated: the sorter walks the whole tree, so after sorting a   *)
(* file of a subdirectory sits in a bucket named after its extension   *)
(* inside that subdirectory.                                           *)
(* ------------------------------------------------------------------ *)
Nested(p) == p \in DOMAIN fs0 /\ Len(p) = 2 /\ fs0[p].kind = "file"

Bucket(n) ==
    LET e == ExtOf(n)
    IN  IF Lower(e) = mp4 THEN HIRES
        ELSE IF Lower(e) = lrv THEN PROXY
        ELSE IF Lower(e) = thm THEN THUMB
        ELSE e

FinalName(n) ==
    IF Lower(ExtOf(n)) = lrv THEN ProxyName(n)
    ELSE IF Lower(ExtOf(n)) = thm THEN ThumbName(n)
    ELSE n

Target(n) == <<Bucket(n), FinalName(n)>>

Extensions(f) == {ExtOf(n) : n \in RootNames(f)}

FlatWithExtensions(f) ==
    /\ Flat(f)
    /\ <<>> \notin Extensions(f)
    /\ \A n, m \in RootNames(f) : n # m => Target(n) # Target(m)

Layout ==
    /\ \A p \in DOMAIN fs : Len(p) = 1 => fs[p].kind = "dir"
    /\ RootNames(fs) = {Bucket(n) : n \in RootNames(fs0)}
    /\ Cardinality(RootNames(fs)) = Cardinality(Extensions(fs0))
    /\ \A n \in RootNames(fs0) : Target(n) \in DOMAIN fs /\ fs[Target(n)] = fs0[<<n>>]
    /\ Cardinality(DOMAIN fs) = Cardinality(RootNames(fs)) + Cardinality(RootNames(fs0))

C2_FlatSorted ==
    (entry = "sort_media" /\ FlatWithExtensions(fs0)) =>
        /\ err = NoError
        /\ pc = "done" => Layout

(* C2 as amended: the same, provided no canonical folder name is       *)
(* claimed twice: for each of mp4/HIRES, lrv/PROXY and thm/THUMBNAILS  *)
(* at most one extension of the directory is a spelling of the source  *)
(* name or the canonical name itself.                                  *)
NoClash(f) ==
    \A h \in {mp4, lrv, thm} :
        Cardinality({e \in Extensions(f) :
                        Lower(e) = h \/ e = (IF h = mp4 THEN HIRES
                                             ELSE IF h = lrv THEN PROXY ELSE THUMB)}) <= 1

C2_FlatSortedNoClash ==
    (entry = "sort_media" /\ FlatWithExtensions(fs0) /\ NoClash(fs0)) =>
        /\ err = NoError
        /\ pc = "done" => Layout

(* three camera files ended in the three canonical folders *)
C2_Witness ==
    /\ entry = "sort_media"
    /\ Completed
    /\ FlatWithExtensions(fs0) /\ NoClash(fs0)
    /\ RootNames(fs) = {HIRES, PROXY, THUMB}

====
